---- MODULE Spec2Model ----
(***************************************************************************)
(* Model of pkg/kubelet/stats/cri_stats_provider_windows.go:               *)
(* listContainerNetworkStats and the helpers it drives                     *)
(* (fetchContainerStats, hcsStatsToNetworkStats, hcsStatsToInterfaceStats) *)
(* against the hcsShimInterface host API.  Every host API call is one      *)
(* step; its outcome (success or failure) is chosen by the host.           *)
(***************************************************************************)
EXTENDS Integers, Sequences, FiniteSets, TLC

(* ---------------- bounds ---------------- *)
\* largest number of containers one GetContainers call returns
MaxContainers == 2
\* largest number of hcsshim.NetworkStats records in one Statistics snapshot
MaxCounters == 3

(* ---------------- host side ---------------- *)
ContainerIds == 1..MaxContainers

\* HNS endpoints known to the host and the adapter name of each.  A snapshot
\* may list an endpoint more than once, which is how two records come to
\* resolve to one interface name.
EndpointIds == {"ep1", "ep2"}
EndpointName(id) == IF id = "ep1" THEN "eth0" ELSE "eth1"

\* Go error values are modelled by the text Error() prints, as a sequence
\* of tokens; the nil error is the empty sequence.
NilErr == <<>>
HostQueryError == <<"HostQueryError">>
ContainerOpenError == <<"ContainerOpenError">>
StatisticsQueryError == <<"StatisticsQueryError">>
HandleReleaseError == <<"HandleReleaseError">>
EndpointResolutionError == <<"EndpointResolutionError">>

\* A *uint64 is modelled as <<>> (nil) or <<v>> (pointer to a cell holding v).
NilPtr == <<>>
Ptr(v) == <<v>>

\* hcsshim.NetworkStats record number j of a snapshot.  The byte counters
\* differ from record to record so that records can be told apart.
NetworkStat(id, j) ==
    [EndpointId |-> id, BytesReceived |-> 100 * j, BytesSent |-> 50 * j]

\* all Network slices a Statistics call can report
NetworkSnapshots ==
    UNION { { [j \in 1..n |-> NetworkStat(ids[j], j)] : ids \in [1..n -> EndpointIds] }
            : n \in 0..MaxCounters }

\* zero values of the Go types involved
ZeroStatistics == [Timestamp |-> 0, Network |-> <<>>]
ZeroInterfaceStats == [Name |-> "", RxBytes |-> NilPtr, TxBytes |-> NilPtr]
ZeroNetworkStats == [Time |-> 0, InterfaceStats |-> ZeroInterfaceStats, Interfaces |-> <<>>]

\* map[string]*statsapi.NetworkStats: the nil map and the empty map differ
NilMap == [nil |-> TRUE, m |-> <<>>]
MakeMap == [nil |-> FALSE, m |-> <<>>]
MapSet(mp, key, val) ==
    [mp EXCEPT !.m = [x \in (DOMAIN mp.m) \cup {key} |-> IF x = key THEN val ELSE mp.m[x]]]
MapKeys(mp) == DOMAIN mp.m

VARIABLES
    pc,          \* position of the pass
    containers,  \* listContainerNetworkStats: containers returned by GetContainers
    i,           \* listContainerNetworkStats: index of the range loop over containers
    stats,       \* listContainerNetworkStats: the map being filled
    ret,         \* listContainerNetworkStats: returned (map, error), once returned
    container,   \* fetchContainerStats: the open handle's container id, 0 if none
    cstats,      \* fetchContainerStats: named result stats / caller's cstats
    err,         \* fetchContainerStats: named result err / caller's err
    result,      \* hcsStatsToNetworkStats: result
    adapters,    \* hcsStatsToNetworkStats: adapters
    k,           \* hcsStatsToNetworkStats: index of the range loop over hcsStats
    clock,       \* host clock, stamps every Statistics snapshot
    enumErr,     \* host: the error GetContainers returned in this pass
    host,        \* host: per container, what its calls returned in this pass
    resolved,    \* per lookup of the current aggregation: the id asked for, what
                 \* GetHNSEndpointByID returned, what hcsStatsToInterfaceStats
                 \* returned and what line 121 logged
    openCalls,   \* host: per container, number of OpenContainer calls
    statsCalls,  \* host: per container, number of Statistics calls on its handle
    closeCalls   \* host: per container, number of Close calls on its handle

vars == <<pc, containers, i, stats, ret, container, cstats, err, result, adapters, k,
          clock, enumErr, host, resolved, openCalls, statsCalls, closeCalls>>

locals == <<container, cstats, err, result, adapters, k, resolved>>
calls == <<enumErr, host, openCalls, statsCalls, closeCalls>>

\* nothing was returned yet by the calls on a container
NoCalls == [open |-> NilErr, query |-> NilErr, close |-> NilErr, network |-> FALSE]
NotReturned == [done |-> FALSE, stats |-> NilMap, err |-> NilErr]

Init ==
    /\ pc = "start"
    /\ containers = <<>>
    /\ i = 1
    /\ stats = NilMap
    /\ ret = NotReturned
    /\ container = 0
    /\ cstats = ZeroStatistics
    /\ err = NilErr
    /\ result = ZeroNetworkStats
    /\ adapters = {}
    /\ k = 1
    /\ clock = 1
    /\ enumErr = NilErr
    /\ host = [x \in ContainerIds |-> NoCalls]
    /\ resolved = <<>>
    /\ openCalls = [x \in ContainerIds |-> 0]
    /\ statsCalls = [x \in ContainerIds |-> 0]
    /\ closeCalls = [x \in ContainerIds |-> 0]

(* ---------------- listContainerNetworkStats: enumeration ---------------- *)

\* GetContainersFail, had line 61 returned the empty map made too early
GetContainersFailEmptyMap ==
    /\ pc = "start"
    /\ enumErr' = HostQueryError
    /\ ret' = [done |-> TRUE, stats |-> MakeMap, err |-> HostQueryError]
    /\ pc' = "done"
    /\ UNCHANGED <<containers, i, stats, locals, clock, host, openCalls, statsCalls, closeCalls>>

\* lines 57-62: GetContainers fails, the pass returns (nil, err)
GetContainersFail ==
    /\ pc = "start"
    /\ enumErr' = HostQueryError
    /\ ret' = [done |-> TRUE, stats |-> NilMap, err |-> HostQueryError]
    /\ pc' = "done"
    /\ UNCHANGED <<containers, i, stats, locals, clock, host, openCalls, statsCalls, closeCalls>>

\* lines 57-64: GetContainers returns n containers with distinct ids
GetContainersOk ==
    /\ pc = "start"
    /\ \E n \in 0..MaxContainers :
         containers' = [j \in 1..n |-> [ID |-> j]]
    /\ stats' = MakeMap
    /\ i' = 1
    /\ pc' = "loop"
    /\ UNCHANGED <<ret, locals, clock, calls>>

(* ---------------- fetchContainerStats ---------------- *)

\* c, had the loop of line 65 walked the containers from the last to the first
cBackwards == containers[Len(containers) + 1 - i]

\* the descriptor the range loop of line 65 is at
c == containers[i]

\* Errorf, had the format of line 100 left the first error out
ErrorfCloseOnly(e, closeErr) ==
    <<"failed to close container; close error: ">> \o closeErr

\* line 100: fmt.Errorf("failed to close container after error %v; close error: %v", err, closeErr)
Errorf(e, closeErr) ==
    <<"failed to close container after error ">> \o e \o <<"; close error: ">> \o closeErr

\* closeDeferred, had the else branch of lines 101-103 been left out
closeDeferredKeep(e, closeErr) ==
    IF closeErr # NilErr /\ e # NilErr THEN Errorf(e, closeErr) ELSE e

\* lines 98-104: the deferred function's effect on the named result err
closeDeferred(e, closeErr) ==
    IF closeErr # NilErr
    THEN IF e # NilErr THEN Errorf(e, closeErr) ELSE closeErr
    ELSE e

\* values of the locals of a function that is not running
ResetFetch == /\ container' = 0
              /\ cstats' = ZeroStatistics
              /\ err' = NilErr
ResetAggregate == /\ result' = ZeroNetworkStats
                  /\ adapters' = {}
                  /\ k' = 1
                  /\ resolved' = <<>>

\* OpenContainerFail, had the error test of lines 94-96 been left out
OpenContainerFailIgnored ==
    /\ pc = "loop"
    /\ i <= Len(containers)
    /\ container' = c.ID
    /\ err' = ContainerOpenError
    /\ host' = [host EXCEPT ![c.ID].open = ContainerOpenError]
    /\ openCalls' = [openCalls EXCEPT ![c.ID] = @ + 1]
    /\ pc' = "stats"
    /\ UNCHANGED <<containers, i, stats, ret, cstats, result, adapters, k,
                   resolved, clock, enumErr, statsCalls, closeCalls>>

\* lines 93-96: OpenContainer fails, fetchContainerStats returns at once
OpenContainerFail ==
    /\ pc = "loop"
    /\ i <= Len(containers)
    /\ err' = ContainerOpenError
    /\ host' = [host EXCEPT ![c.ID].open = ContainerOpenError]
    /\ openCalls' = [openCalls EXCEPT ![c.ID] = @ + 1]
    /\ pc' = "fetched"
    /\ UNCHANGED <<containers, i, stats, ret, container, cstats, result, adapters, k,
                   resolved, clock, enumErr, statsCalls, closeCalls>>

\* OpenContainerOk, had line 97 lacked the defer keyword, so that Close ran
\* as soon as the handle was there
OpenContainerOkCloseFirst ==
    /\ pc = "loop"
    /\ i <= Len(containers)
    /\ container' = c.ID
    /\ openCalls' = [openCalls EXCEPT ![c.ID] = @ + 1]
    /\ closeCalls' = [closeCalls EXCEPT ![c.ID] = @ + 1]
    /\ pc' = "stats"
    /\ UNCHANGED <<containers, i, stats, ret, cstats, err, result, adapters, k,
                   resolved, clock, enumErr, host, statsCalls>>

\* line 93: OpenContainer returns a handle
OpenContainerOk ==
    /\ pc = "loop"
    /\ i <= Len(containers)
    /\ container' = c.ID
    /\ openCalls' = [openCalls EXCEPT ![c.ID] = @ + 1]
    /\ pc' = "stats"
    /\ UNCHANGED <<containers, i, stats, ret, cstats, err, result, adapters, k,
                   resolved, clock, enumErr, host, statsCalls, closeCalls>>

\* line 107: container.Statistics() succeeds; the results are assigned
\* before the deferred function runs
StatisticsOk ==
    /\ pc = "stats"
    /\ \E net \in NetworkSnapshots :
         /\ cstats' = [Timestamp |-> clock, Network |-> net]
         /\ host' = [host EXCEPT ![container].network = Len(net) > 0]
    /\ err' = NilErr
    /\ clock' = clock + 1
    /\ statsCalls' = [statsCalls EXCEPT ![container] = @ + 1]
    /\ pc' = "close"
    /\ UNCHANGED <<containers, i, stats, ret, container, result, adapters, k,
                   resolved, enumErr, openCalls, closeCalls>>

\* StatisticsFail, had Close been called on the success path only instead
\* of being deferred
StatisticsFailNoClose ==
    /\ pc = "stats"
    /\ cstats' = ZeroStatistics
    /\ err' = StatisticsQueryError
    /\ host' = [host EXCEPT ![container].query = StatisticsQueryError]
    /\ statsCalls' = [statsCalls EXCEPT ![container] = @ + 1]
    /\ container' = 0
    /\ pc' = "fetched"
    /\ UNCHANGED <<containers, i, stats, ret, result, adapters, k,
                   resolved, clock, enumErr, openCalls, closeCalls>>

\* line 107: container.Statistics() fails with the zero Statistics
StatisticsFail ==
    /\ pc = "stats"
    /\ cstats' = ZeroStatistics
    /\ err' = StatisticsQueryError
    /\ host' = [host EXCEPT ![container].query = StatisticsQueryError]
    /\ statsCalls' = [statsCalls EXCEPT ![container] = @ + 1]
    /\ pc' = "close"
    /\ UNCHANGED <<containers, i, stats, ret, container, result, adapters, k,
                   resolved, clock, enumErr, openCalls, closeCalls>>

\* lines 97-105: the deferred container.Close(), then fetchContainerStats returns
Close(closeErr) ==
    /\ pc = "close"
    /\ err' = closeDeferred(err, closeErr)
    /\ host' = [host EXCEPT ![container].close = closeErr]
    /\ closeCalls' = [closeCalls EXCEPT ![container] = @ + 1]
    /\ container' = 0
    /\ pc' = "fetched"
    /\ UNCHANGED <<containers, i, stats, ret, cstats, result, adapters, k,
                   resolved, clock, enumErr, openCalls, statsCalls>>

CloseOk == Close(NilErr)
CloseFail == Close(HandleReleaseError)

(* ---------------- listContainerNetworkStats: the loop body ---------------- *)

\* fetchFailed, had the error of fetchContainerStats been ignored
fetchFailedIgnored(e) == e # e

\* line 67: the test that sends the loop to `continue`
fetchFailed(e) == e # NilErr

\* hasNetwork, had line 71 not looked at the number of records
hasNetworkAlways(cs) == Len(cs.Network) >= 0

\* line 71: the test that guards the insertion
hasNetwork(cs) == Len(cs.Network) > 0

\* line 113: metav1.NewTime(timestamp)
NewTime(timestamp) == timestamp

\* NewString, had adapters been one set shared by all calls of a pass: the
\* names accepted so far for the containers already inserted
sharedString ==
    UNION { { stats.m[x].Interfaces[a].Name : a \in DOMAIN stats.m[x].Interfaces }
            : x \in MapKeys(stats) }

\* line 117: sets.NewString()
NewString == {}

\* FetchFailed, had line 69 returned the error instead of continuing
FetchFailedAbort ==
    /\ pc = "fetched"
    /\ fetchFailed(err)
    /\ ret' = [done |-> TRUE, stats |-> NilMap, err |-> err]
    /\ pc' = "done"
    /\ UNCHANGED <<containers, i, stats, locals, clock, calls>>

\* lines 67-70: fetch failed, log and continue with the next container
FetchFailed ==
    /\ pc = "fetched"
    /\ fetchFailed(err)
    /\ i' = i + 1
    /\ ResetFetch
    /\ pc' = "loop"
    /\ UNCHANGED <<containers, stats, ret, result, adapters, k, resolved, clock, calls>>

\* NoNetwork, had the loop been left at the first snapshot without records
NoNetworkReturn ==
    /\ pc = "fetched"
    /\ ~fetchFailed(err)
    /\ ~hasNetwork(cstats)
    /\ ret' = [done |-> TRUE, stats |-> stats, err |-> NilErr]
    /\ pc' = "done"
    /\ UNCHANGED <<containers, i, stats, locals, clock, calls>>

\* line 71, false branch: no network records, nothing is inserted
NoNetwork ==
    /\ pc = "fetched"
    /\ ~fetchFailed(err)
    /\ ~hasNetwork(cstats)
    /\ i' = i + 1
    /\ ResetFetch
    /\ pc' = "loop"
    /\ UNCHANGED <<containers, stats, ret, result, adapters, k, resolved, clock, calls>>

\* lines 112-117: hcsStatsToNetworkStats is entered with (timestamp, hcsStats)
\* taken from cstats
enterAggregate ==
    /\ result' = [Time |-> NewTime(cstats.Timestamp),
                  InterfaceStats |-> ZeroInterfaceStats,
                  Interfaces |-> <<>>]
    /\ adapters' = NewString
    /\ k' = 1
    /\ resolved' = <<>>
    /\ pc' = "resolve"
    /\ UNCHANGED <<containers, i, stats, ret, container, cstats, err, clock, calls>>

\* lines 71-72: the snapshot has network records, hcsStatsToNetworkStats is called
BeginAggregate ==
    /\ pc = "fetched"
    /\ ~fetchFailed(err)
    /\ hasNetwork(cstats)
    /\ enterAggregate

(* ---------------- hcsStatsToNetworkStats ---------------- *)

\* the record the range loop of line 118 is at
stat == cstats.Network[k]

\* hcsStatsToInterfaceStats, had lines 151-152 taken each other's counter
hcsStatsToInterfaceStatsSwapped(endpoint, st) ==
    [Name |-> endpoint.Name, RxBytes |-> Ptr(st.BytesSent), TxBytes |-> Ptr(st.BytesReceived)]

\* lines 149-153: the InterfaceStats built from a resolved endpoint
hcsStatsToInterfaceStats(endpoint, st) ==
    [Name |-> endpoint.Name, RxBytes |-> Ptr(st.BytesReceived), TxBytes |-> Ptr(st.BytesSent)]

\* line 126: adapters.Has(iStat.Name)
alreadyCounted(seen, iStat) == iStat.Name \in seen

\* countOnce, had the test of line 126 been left out
countAlways(interfaces, seen, iStat) == Append(interfaces, iStat)

\* lines 126-130: result.Interfaces after one resolved record
countOnce(interfaces, seen, iStat) ==
    IF alreadyCounted(seen, iStat) THEN interfaces ELSE Append(interfaces, iStat)

\* lines 126-131: adapters after one resolved record
insertAdapter(seen, iStat) ==
    IF alreadyCounted(seen, iStat) THEN seen ELSE seen \cup {iStat.Name}

\* selectDefault, had line 136 taken the last interface
selectLast(res) ==
    IF Len(res.Interfaces) > 0
    THEN [res EXCEPT !.InterfaceStats = res.Interfaces[Len(res.Interfaces)]]
    ELSE res

\* lines 135-137: the default interface
selectDefault(res) ==
    IF Len(res.Interfaces) > 0
    THEN [res EXCEPT !.InterfaceStats = res.Interfaces[1]]
    ELSE res

\* lookupError, had line 146 returned a new error without the cause
lookupErrorOpaque(cause, st) == <<"failed to get HNS endpoint">>

\* lines 144-147: the error hcsStatsToInterfaceStats returns when
\* GetHNSEndpointByID(stat.EndpointId) failed with cause
lookupError(cause, st) == cause

\* line 121: the record klog.InfoS writes for a failed lookup
logRecord(st, e) == [endpointID |-> st.EndpointId, err |-> e]
NoLog == [endpointID |-> "", err |-> NilErr]

\* lines 119-121 and 144-147: one failed lookup of record st
failedLookup(st, cause) ==
    [id |-> st.EndpointId, err |-> cause, name |-> "",
     returned |-> lookupError(cause, st),
     logged |-> logRecord(st, lookupError(cause, st))]

\* ResolveFail, had line 122 left the loop instead of continuing
ResolveFailBreak ==
    /\ pc = "resolve"
    /\ k <= Len(cstats.Network)
    /\ resolved' = Append(resolved, failedLookup(stat, EndpointResolutionError))
    /\ k' = Len(cstats.Network) + 1
    /\ UNCHANGED <<pc, containers, i, stats, ret, container, cstats, err, result, adapters,
                   clock, calls>>

\* ResolveFail, had a failed lookup been tried again for the same record
ResolveFailRetry ==
    /\ pc = "resolve"
    /\ k <= Len(cstats.Network)
    /\ resolved' = Append(resolved, failedLookup(stat, EndpointResolutionError))
    /\ UNCHANGED <<pc, containers, i, stats, ret, container, cstats, err, result, adapters, k,
                   clock, calls>>

\* lines 119-123 and 144-147: GetHNSEndpointByID fails, the record is skipped
ResolveFail ==
    /\ pc = "resolve"
    /\ k <= Len(cstats.Network)
    /\ resolved' = Append(resolved, failedLookup(stat, EndpointResolutionError))
    /\ k' = k + 1
    /\ UNCHANGED <<pc, containers, i, stats, ret, container, cstats, err, result, adapters,
                   clock, calls>>

\* lines 119, 126-131 and 144-153: GetHNSEndpointByID returns the endpoint
ResolveOk ==
    /\ pc = "resolve"
    /\ k <= Len(cstats.Network)
    /\ LET endpoint == [Name |-> EndpointName(stat.EndpointId)]
           iStat == hcsStatsToInterfaceStats(endpoint, stat)
       IN /\ result' = [result EXCEPT !.Interfaces = countOnce(@, adapters, iStat)]
          /\ adapters' = insertAdapter(adapters, iStat)
          /\ resolved' = Append(resolved, [id |-> stat.EndpointId, err |-> NilErr,
                                            name |-> endpoint.Name, returned |-> NilErr,
                                            logged |-> NoLog])
    /\ k' = k + 1
    /\ UNCHANGED <<pc, containers, i, stats, ret, container, cstats, err,
                   clock, calls>>

\* lines 134-139: the loop is over, hcsStatsToNetworkStats returns result
FinishAggregate ==
    /\ pc = "resolve"
    /\ k > Len(cstats.Network)
    /\ result' = selectDefault(result)
    /\ pc' = "aggregated"
    /\ UNCHANGED <<containers, i, stats, ret, container, cstats, err, adapters, k,
                   resolved, clock, calls>>

\* Insert, had line 71 looked at the resolved interfaces instead of the records
InsertIfResolved ==
    /\ pc = "aggregated"
    /\ stats' = IF Len(result.Interfaces) > 0 THEN MapSet(stats, c.ID, result) ELSE stats
    /\ i' = i + 1
    /\ ResetFetch
    /\ ResetAggregate
    /\ pc' = "loop"
    /\ UNCHANGED <<containers, ret, clock, calls>>

\* line 72: stats[c.ID] = the returned result; the loop moves on
Insert ==
    /\ pc = "aggregated"
    /\ stats' = MapSet(stats, c.ID, result)
    /\ i' = i + 1
    /\ ResetFetch
    /\ ResetAggregate
    /\ pc' = "loop"
    /\ UNCHANGED <<containers, ret, clock, calls>>

\* line 76: every container was visited
Return ==
    /\ pc = "loop"
    /\ i > Len(containers)
    /\ ret' = [done |-> TRUE, stats |-> stats, err |-> NilErr]
    /\ pc' = "done"
    /\ UNCHANGED <<containers, i, stats, locals, clock, calls>>

\* lines 55-64: the provider is asked again; nothing of the last pass is kept
NextPass ==
    /\ pc = "done"
    /\ pc' = "start"
    /\ containers' = <<>>
    /\ i' = 1
    /\ stats' = NilMap
    /\ ret' = NotReturned
    /\ ResetFetch
    /\ ResetAggregate
    /\ clock' = 1
    /\ enumErr' = NilErr
    /\ host' = [x \in ContainerIds |-> NoCalls]
    /\ openCalls' = [x \in ContainerIds |-> 0]
    /\ statsCalls' = [x \in ContainerIds |-> 0]
    /\ closeCalls' = [x \in ContainerIds |-> 0]

Next ==
    \/ GetContainersFail
    \/ GetContainersOk
    \/ OpenContainerFail
    \/ OpenContainerOk
    \/ StatisticsOk
    \/ StatisticsFail
    \/ CloseOk
    \/ CloseFail
    \/ FetchFailed
    \/ NoNetwork
    \/ BeginAggregate
    \/ ResolveFail
    \/ ResolveOk
    \/ FinishAggregate
    \/ Insert
    \/ Return
    \/ NextPass


Spec == Init /\ [][Next]_vars

\* the steps of one pass, lines 55-77; when the next pass starts is up to
\* the caller
PassStep ==
    \/ GetContainersFail
    \/ GetContainersOk
    \/ OpenContainerFail
    \/ OpenContainerOk
    \/ StatisticsOk
    \/ StatisticsFail
    \/ CloseOk
    \/ CloseFail
    \/ FetchFailed
    \/ NoNetwork
    \/ BeginAggregate
    \/ ResolveFail
    \/ ResolveOk
    \/ FinishAggregate
    \/ Insert
    \/ Return

\* every host API call returns or fails and the code between two calls
\* runs on: a pass that can take a step eventually takes one
FairSpec == Spec /\ WF_vars(PassStep)

(* ---------------- hcsStatsToNetworkStats called on its own ---------------- *)

\* hcsStatsToNetworkStats is about to be called with any timestamp and any
\* slice of records, the empty slice included
InitAggregate ==
    /\ pc = "call"
    /\ cstats \in [Timestamp : 1..MaxContainers, Network : NetworkSnapshots]
    /\ containers = <<>>
    /\ i = 1
    /\ stats = NilMap
    /\ ret = NotReturned
    /\ container = 0
    /\ err = NilErr
    /\ result = ZeroNetworkStats
    /\ adapters = {}
    /\ k = 1
    /\ clock = 1
    /\ enumErr = NilErr
    /\ host = [x \in ContainerIds |-> NoCalls]
    /\ resolved = <<>>
    /\ openCalls = [x \in ContainerIds |-> 0]
    /\ statsCalls = [x \in ContainerIds |-> 0]
    /\ closeCalls = [x \in ContainerIds |-> 0]

\* lines 111-117: the call
CallAggregate ==
    /\ pc = "call"
    /\ enterAggregate

NextAggregate ==
    \/ CallAggregate
    \/ ResolveFail
    \/ ResolveOk
    \/ FinishAggregate

SpecAggregate == InitAggregate /\ [][NextAggregate]_vars
(* ---------------- properties ---------------- *)

\* OpenContainer returned a handle for container x in this pass
Acquired(x) == openCalls[x] > 0 /\ host[x].open = NilErr
\* Statistics succeeded on the handle of container x in this pass
Queried(x) == statsCalls[x] > 0 /\ host[x].query = NilErr
\* Close was called on the handle of container x and succeeded
Released(x) == closeCalls[x] > 0 /\ host[x].close = NilErr
\* some call of container x's fetch failed
Failed(x) == host[x].open # NilErr \/ host[x].query # NilErr \/ host[x].close # NilErr
\* fetchContainerStats is between OpenContainer and its return
fetchRunning == pc \in {"stats", "close"}
\* the ids GetContainers returned
Enumerated == {containers[j].ID : j \in 1..Len(containers)}
\* error e prints the text of error cause
Mentions(e, cause) ==
    \E j \in 1..Len(e) : j + Len(cause) - 1 <= Len(e) /\ SubSeq(e, j, j + Len(cause) - 1) = cause
\* record j of the current aggregation resolved to name
ResolvedTo(j, name) ==
    j \in DOMAIN resolved /\ resolved[j].err = NilErr /\ resolved[j].name = name

\* C1: every handle that was acquired is released exactly once before
\* fetchContainerStats returns, whether Statistics succeeded or failed; no
\* handle is released twice, none is released without having been acquired.
C1_HandleReleasedOnce ==
    \A x \in ContainerIds :
        /\ closeCalls[x] <= 1
        /\ ~Acquired(x) => closeCalls[x] = 0
        /\ (Acquired(x) /\ fetchRunning /\ container = x) => closeCalls[x] = 0
        /\ (Acquired(x) /\ ~(fetchRunning /\ container = x)) => closeCalls[x] = 1

\* C1 witness: fetch returned after a failed Statistics call, handle released once
C1_Witness ==
    /\ pc = "fetched"
    /\ Acquired(c.ID)
    /\ host[c.ID].query # NilErr
    /\ closeCalls[c.ID] = 1

\* C2: the interfaces returned by hcsStatsToNetworkStats carry each name at
\* most once, and the entry of a name has the rx/tx of the first record, in
\* input order, that resolved to that name.
C2_DedupFirstWins ==
    pc = "aggregated" =>
        LET ifs == result.Interfaces
            net == cstats.Network
            IsFirst(j, name) ==
                /\ j \in DOMAIN net
                /\ ResolvedTo(j, name)
                /\ \A q \in 1..(j - 1) : ~ResolvedTo(q, name)
        IN /\ \A a, b \in DOMAIN ifs : ifs[a].Name = ifs[b].Name => a = b
           /\ \A a \in DOMAIN ifs :
                \E j \in DOMAIN net :
                    /\ IsFirst(j, ifs[a].Name)
                    /\ ifs[a].RxBytes = Ptr(net[j].BytesReceived)
                    /\ ifs[a].TxBytes = Ptr(net[j].BytesSent)

\* C2 witness: two records resolved to one name, a record of another name
\* lies between them, and both names were returned
C2_Witness ==
    /\ pc = "aggregated"
    /\ Len(cstats.Network) = 3
    /\ ResolvedTo(1, "eth0") /\ ResolvedTo(2, "eth1") /\ ResolvedTo(3, "eth0")
    /\ Len(result.Interfaces) = 2

\* C3: in every result of hcsStatsToNetworkStats the default interface is
\* set if and only if the interface list is non-empty, and then it equals
\* the first interface; on an empty input the list is empty and the default
\* interface is the zero value.
C3_PrimaryIsFirst ==
    pc = "aggregated" =>
        /\ (result.InterfaceStats # ZeroInterfaceStats) <=> (Len(result.Interfaces) > 0)
        /\ Len(result.Interfaces) > 0 => result.InterfaceStats = result.Interfaces[1]
        /\ Len(cstats.Network) = 0 =>
              result.Interfaces = <<>> /\ result.InterfaceStats = ZeroInterfaceStats

\* C3 witness: a result with two interfaces, the default one being the first
C3_Witness ==
    /\ pc = "aggregated"
    /\ Len(result.Interfaces) = 2
    /\ result.InterfaceStats = result.Interfaces[1]
    /\ result.InterfaceStats # result.Interfaces[2]
\* C4: once GetContainers succeeded, a failed fetch of one container changes
\* nothing for the others: the pass moves on to the next container, returns
\* a map and no error, leaves the failed container out and keeps the entry
\* of every other container as its own aggregation produced it.
C4_ContainerIsolation ==
    [][ /\ (pc = "fetched" /\ err # NilErr) =>
              (stats' = stats /\ i' = i + 1 /\ pc' = "loop")
        /\ pc # "done" =>
              /\ \A x \in MapKeys(stats) :
                    x \in MapKeys(stats') /\ stats'.m[x] = stats.m[x]
              /\ \A x \in MapKeys(stats') \ MapKeys(stats) :
                    x = c.ID /\ ~Failed(x) /\ stats'.m[x] = result
        /\ (ret'.done /\ enumErr' = NilErr) =>
              /\ ret'.err = NilErr
              /\ ~ret'.stats.nil
              /\ \A x \in Enumerated' :
                    /\ Failed(x)' => x \notin MapKeys(ret'.stats)
                    /\ (~Failed(x)' /\ host'[x].network) => x \in MapKeys(ret'.stats)
      ]_vars

\* C4 witness: the pass returned an entry for the second container although
\* OpenContainer failed for the first
C4_Witness ==
    /\ ret.done
    /\ ret.err = NilErr
    /\ Len(containers) = 2
    /\ host[1].open # NilErr
    /\ MapKeys(ret.stats) = {2}

\* C5: a failed endpoint lookup drops only its own record: every record is
\* looked up, and the interfaces returned are exactly the records that
\* resolved and were the first of their name, in input order.
C5_EndpointIsolation ==
    pc = "aggregated" =>
        LET ifs == result.Interfaces
            net == cstats.Network
            Kept == {p \in DOMAIN net :
                        /\ p \in DOMAIN resolved
                        /\ resolved[p].err = NilErr
                        /\ \A q \in 1..(p - 1) : ~ResolvedTo(q, resolved[p].name)}
            Source(a) == CHOOSE p \in Kept : Cardinality({q \in Kept : q < p}) = a - 1
        IN /\ Len(resolved) = Len(net)
           /\ Len(ifs) = Cardinality(Kept)
           /\ \A a \in 1..Len(ifs) :
                 ifs[a] = [Name |-> resolved[Source(a)].name,
                           RxBytes |-> Ptr(net[Source(a)].BytesReceived),
                           TxBytes |-> Ptr(net[Source(a)].BytesSent)]

\* C5 witness: three records, the lookup of the second failed, the first and
\* the third are returned in that order
C5_Witness ==
    /\ pc = "aggregated"
    /\ Len(cstats.Network) = 3
    /\ resolved[2].err # NilErr
    /\ Len(result.Interfaces) = 2
    /\ result.Interfaces[1].RxBytes = Ptr(cstats.Network[1].BytesReceived)
    /\ result.Interfaces[2].RxBytes = Ptr(cstats.Network[3].BytesReceived)

\* C6: when GetContainers fails the pass returns that error and the nil map,
\* and no container is opened, queried or closed and no endpoint looked up.
C6_EnumerationFailureAborts ==
    enumErr # NilErr =>
        /\ pc = "done"
        /\ ret.done
        /\ ret.err = enumErr
        /\ ret.stats = NilMap
        /\ \A x \in ContainerIds :
              openCalls[x] = 0 /\ statsCalls[x] = 0 /\ closeCalls[x] = 0
        /\ resolved = <<>>

\* C6 witness: the pass has returned after GetContainers failed
C6_Witness ==
    /\ pc = "done"
    /\ enumErr = HostQueryError
    /\ ret.err = HostQueryError

\* C7: a container fetched successfully whose snapshot holds no network
\* record gets no entry, and hcsStatsToNetworkStats is not entered for it.
C7_EmptyNetworkOmitted ==
    \A x \in ContainerIds :
        (Acquired(x) /\ Queried(x) /\ Released(x) /\ ~host[x].network) =>
            /\ x \notin MapKeys(stats)
            /\ x \notin MapKeys(ret.stats)
            /\ ~(pc \in {"resolve", "aggregated"} /\ c.ID = x)

\* C7 witness: the pass returned, a container with an empty snapshot has no
\* entry while another container has one
C7_Witness ==
    /\ ret.done
    /\ \E x, y \in Enumerated :
          /\ Acquired(x) /\ Queried(x) /\ Released(x) /\ ~host[x].network
          /\ x \notin MapKeys(ret.stats)
          /\ y \in MapKeys(ret.stats)

\* C8 as stated: after a successful pass a container has an entry if and
\* only if its Statistics call succeeded with at least one network record.
C8_EntryIffQueried ==
    (ret.done /\ ret.err = NilErr) =>
        \A x \in ContainerIds :
            x \in MapKeys(ret.stats) <=> (Queried(x) /\ host[x].network)

\* C8 amended: after a successful pass a container has an entry if and only
\* if its Statistics call succeeded with at least one network record and the
\* Close of its handle succeeded too.
C8_EntryIffFetched ==
    (ret.done /\ ret.err = NilErr) =>
        \A x \in ContainerIds :
            x \in MapKeys(ret.stats) <=> (Queried(x) /\ Released(x) /\ host[x].network)

\* C8 witness: a successful pass with an entry for one container and none
\* for a container whose snapshot had records but whose Close failed
C8_Witness ==
    /\ ret.done
    /\ ret.err = NilErr
    /\ \E x, y \in Enumerated :
          /\ x \in MapKeys(ret.stats)
          /\ Queried(y) /\ host[y].network /\ ~Released(y)
          /\ y \notin MapKeys(ret.stats)

\* C9: when Statistics succeeds and Close fails, fetchContainerStats returns
\* the Close error, and the container gets no entry in that pass.
C9_ReleaseFailureFailsFetch ==
    /\ (pc = "fetched" /\ Queried(c.ID) /\ host[c.ID].close # NilErr) =>
          err = host[c.ID].close
    /\ \A x \in ContainerIds :
          (Queried(x) /\ host[x].close # NilErr) =>
              /\ x \notin MapKeys(stats)
              /\ x \notin MapKeys(ret.stats)
              /\ ~(pc \in {"resolve", "aggregated"} /\ c.ID = x)

\* C9 witness: fetch has returned the Close error for a snapshot with records
C9_Witness ==
    /\ pc = "fetched"
    /\ Queried(c.ID)
    /\ hasNetwork(cstats)
    /\ host[c.ID].close = HandleReleaseError
    /\ err = HandleReleaseError

\* C10: when Statistics and Close both fail, the error fetchContainerStats
\* returns prints both causes; when only Statistics fails it is the
\* Statistics error itself.
C10_ErrorChaining ==
    (pc = "fetched" /\ statsCalls[c.ID] > 0 /\ host[c.ID].query # NilErr) =>
        IF host[c.ID].close # NilErr
        THEN /\ Mentions(err, host[c.ID].query)
             /\ Mentions(err, host[c.ID].close)
        ELSE err = host[c.ID].query

\* C10 witness: fetch has returned after both Statistics and Close failed
C10_Witness ==
    /\ pc = "fetched"
    /\ host[c.ID].query = StatisticsQueryError
    /\ host[c.ID].close = HandleReleaseError
    /\ err # NilErr
\* C11 as stated: when the lookup fails, the error hcsStatsToInterfaceStats
\* returns carries both the endpoint id of the record and the cause.
C11_ErrorCarriesIdAndCause ==
    pc \in {"resolve", "aggregated"} =>
        \A j \in DOMAIN resolved :
            resolved[j].err # NilErr =>
                /\ Mentions(resolved[j].returned, <<cstats.Network[j].EndpointId>>)
                /\ Mentions(resolved[j].returned, resolved[j].err)

\* C11 amended: when the lookup fails, hcsStatsToInterfaceStats returns the
\* error of GetHNSEndpointByID itself, unchanged; the endpoint id of the
\* record is put next to that error only in the log record of the caller.
C11_ErrorIsCause ==
    pc \in {"resolve", "aggregated"} =>
        \A j \in DOMAIN resolved :
            resolved[j].err # NilErr =>
                /\ resolved[j].returned = resolved[j].err
                /\ resolved[j].logged =
                      [endpointID |-> cstats.Network[j].EndpointId, err |-> resolved[j].err]

\* C11 witness: the lookup of the second record, for endpoint ep2, has failed
C11_Witness ==
    /\ pc = "resolve"
    /\ Len(resolved) = 2
    /\ cstats.Network[2].EndpointId = "ep2"
    /\ resolved[2].err = EndpointResolutionError
    /\ resolved[2].returned = EndpointResolutionError
\* C12: in a pass GetHNSEndpointByID is called exactly once for every record
\* of every snapshot that is aggregated, in record order: a failed lookup is
\* not tried again, a record that is then dropped as a duplicate name was
\* looked up once, and no lookup happens outside an aggregation.
C12_OneLookupPerRecord ==
    IF pc \in {"resolve", "aggregated"}
    THEN /\ Len(resolved) = k - 1
         /\ Len(resolved) <= Len(cstats.Network)
         /\ \A j \in DOMAIN resolved : resolved[j].id = cstats.Network[j].EndpointId
         /\ pc = "aggregated" => Len(resolved) = Len(cstats.Network)
    ELSE resolved = <<>>

\* C12 witness: three records were aggregated with three lookups; the first
\* failed, the third was dropped as a duplicate of the second
C12_Witness ==
    /\ pc = "aggregated"
    /\ Len(cstats.Network) = 3
    /\ Len(resolved) = 3
    /\ resolved[1].err # NilErr
    /\ ResolvedTo(2, "eth0") /\ ResolvedTo(3, "eth0")
    /\ Len(result.Interfaces) = 1
\* C13: if every host API call returns or fails, a pass whose GetContainers
\* succeeded eventually returns, having visited every container returned,
\* with a map and a nil error, whichever calls failed on the way.
C13_PassReturnsMap ==
    (pc = "loop") ~>
        (/\ pc = "done"
         /\ ret.done
         /\ ret.err = NilErr
         /\ ~ret.stats.nil
         /\ i = Len(containers) + 1
         /\ \A x \in Enumerated : openCalls[x] = 1)

\* C13 witness: a pass returned a map and no error although OpenContainer
\* failed for one container and Statistics, Close and a lookup for the other
C13_Witness ==
    /\ pc = "done"
    /\ ret.err = NilErr
    /\ ~ret.stats.nil
    /\ Len(containers) = 2
    /\ host[1].query # NilErr
    /\ host[1].close # NilErr
    /\ host[2].open # NilErr
\* the names the lookups of the current aggregation resolved to so far
ResolvedNames == {resolved[j].name : j \in {q \in DOMAIN resolved : resolved[q].err = NilErr}}

\* C14: the set of seen names belongs to one call of hcsStatsToNetworkStats:
\* it holds exactly the names resolved in that call, so every name resolved
\* for a container is in that container's result, whatever names were
\* accepted for other containers or in an earlier pass.
C14_SeenNamesAreLocal ==
    pc \in {"resolve", "aggregated"} =>
        /\ adapters = ResolvedNames
        /\ {result.Interfaces[a].Name : a \in DOMAIN result.Interfaces} = ResolvedNames

\* C14 witness: eth0 was accepted for the first container and is accepted
\* again for the second
C14_Witness ==
    /\ pc = "aggregated"
    /\ i = 2
    /\ 1 \in MapKeys(stats)
    /\ Len(stats.m[1].Interfaces) > 0
    /\ stats.m[1].Interfaces[1].Name = "eth0"
    /\ Len(result.Interfaces) > 0
    /\ result.Interfaces[1].Name = "eth0"
\* C15: when OpenContainer fails, fetchContainerStats returns that error
\* unchanged and at once: neither Statistics nor Close is called for that
\* container.
C15_OpenFailureReturnsAtOnce ==
    /\ \A x \in ContainerIds :
          host[x].open # NilErr =>
              /\ statsCalls[x] = 0
              /\ closeCalls[x] = 0
              /\ container # x
    /\ (pc = "fetched" /\ host[c.ID].open # NilErr) =>
          /\ err = host[c.ID].open
          /\ cstats = ZeroStatistics

\* C15 witness: fetch has returned the error of OpenContainer for the second
\* container
C15_Witness ==
    /\ pc = "fetched"
    /\ i = 2
    /\ host[2].open = ContainerOpenError
    /\ err = ContainerOpenError
    /\ openCalls[2] = 1

\* the containers whose handle is open
OpenHandles == {x \in ContainerIds : Acquired(x) /\ closeCalls[x] = 0}

\* C16: containers are visited one at a time in the order GetContainers
\* returned them, and at most one handle is open at any time: a container's
\* handle is closed before OpenContainer is called for the next one.
C16_OneHandleInOrder ==
    /\ Cardinality(OpenHandles) <= 1
    /\ OpenHandles = IF container = 0 THEN {} ELSE {container}
    /\ OpenHandles # {} => (fetchRunning /\ container = c.ID)
    /\ \A j \in 1..Len(containers) :
          /\ j < i => openCalls[containers[j].ID] = 1
          /\ j > i => openCalls[containers[j].ID] = 0
          /\ j = i => openCalls[containers[j].ID] = IF pc = "loop" THEN 0 ELSE 1

\* C16 witness: the handle of the second container is open, the handle of
\* the first was opened and closed before
C16_Witness ==
    /\ pc = "stats"
    /\ i = 2
    /\ container = 2
    /\ Acquired(1)
    /\ closeCalls[1] = 1
    /\ OpenHandles = {2}
\* C17: every interface of a result of hcsStatsToNetworkStats comes from
\* exactly one input record whose lookup succeeded: its name is the name
\* the lookup returned, its rx and tx are that record's BytesReceived and
\* BytesSent; and the result carries the timestamp of the snapshot.
C17_InterfacesComeFromRecords ==
    pc = "aggregated" =>
        LET ifs == result.Interfaces
            net == cstats.Network
            From(a) == {j \in DOMAIN net :
                           /\ j \in DOMAIN resolved
                           /\ resolved[j].err = NilErr
                           /\ resolved[j].id = net[j].EndpointId
                           /\ ifs[a] = [Name |-> resolved[j].name,
                                        RxBytes |-> Ptr(net[j].BytesReceived),
                                        TxBytes |-> Ptr(net[j].BytesSent)]}
        IN /\ result.Time = cstats.Timestamp
           /\ \A a \in DOMAIN ifs : Cardinality(From(a)) = 1

\* C17 witness: the result for the second snapshot of a pass has two
\* interfaces and that snapshot's timestamp
C17_Witness ==
    /\ pc = "aggregated"
    /\ cstats.Timestamp = 2
    /\ result.Time = 2
    /\ Len(result.Interfaces) = 2
    /\ result.Interfaces[2].RxBytes # result.Interfaces[2].TxBytes

\* C18: a container fetched with at least one record whose lookups all
\* failed still gets an entry, with no interfaces and the zero default
\* interface, and the returned map is the map so filled.
C18_EntryWithoutInterfaces ==
    [][ /\ (pc = "aggregated" /\ \A j \in DOMAIN resolved : resolved[j].err # NilErr) =>
              /\ Len(cstats.Network) > 0
              /\ pc' = "loop"
              /\ c.ID \in MapKeys(stats')
              /\ stats'.m[c.ID].Interfaces = <<>>
              /\ stats'.m[c.ID].InterfaceStats = ZeroInterfaceStats
        /\ (pc = "loop" /\ pc' = "done") => ret'.stats = stats
        /\ \A x \in MapKeys(stats) :
              (pc # "done" /\ stats.m[x].Interfaces = <<>>) =>
                  (x \in MapKeys(stats') /\ stats'.m[x] = stats.m[x])
      ]_vars

\* C18 witness: the returned map has an entry without interfaces for a
\* container whose snapshot had records
C18_Witness ==
    /\ ret.done
    /\ ret.err = NilErr
    /\ \E x \in MapKeys(ret.stats) :
          /\ Queried(x) /\ Released(x) /\ host[x].network
          /\ ret.stats.m[x].Interfaces = <<>>
          /\ ret.stats.m[x].InterfaceStats = ZeroInterfaceStats

\* C19: on every handle the calls come in the order OpenContainer,
\* Statistics (once), Close (once, after Statistics); and the lookups for a
\* container's records are made only after its handle was closed.
C19_CallOrder ==
    [][ /\ \A x \in ContainerIds :
              /\ statsCalls'[x] > statsCalls[x] =>
                    (Acquired(x) /\ container = x /\ statsCalls[x] = 0 /\ closeCalls[x] = 0)
              /\ closeCalls'[x] > closeCalls[x] =>
                    (Acquired(x) /\ container = x /\ statsCalls[x] = 1 /\ closeCalls[x] = 0)
        /\ Len(resolved') > Len(resolved) =>
              /\ container = 0
              /\ Acquired(c.ID)
              /\ statsCalls[c.ID] = 1
              /\ closeCalls[c.ID] = 1
      ]_vars

\* C19 witness: a lookup was made for the second container, whose handle
\* was opened, queried once and closed
C19_Witness ==
    /\ pc = "resolve"
    /\ i = 2
    /\ Len(resolved) >= 1
    /\ container = 0
    /\ openCalls[2] = 1 /\ statsCalls[2] = 1 /\ closeCalls[2] = 1
====
